---- MODULE Spec2Model ----
(***************************************************************************)
(* A model of the dqlite Node facade (server.go): the engine lifecycle     *)
(* (Start, Close, BindAddress), the local queries (Cluster, Leader) and    *)
(* the membership operations (Join, Leave).                                *)
(*                                                                         *)
(* Each caller goroutine is a thread of Threads.  A blocking call to a     *)
(* collaborator (the Connector, Protocol.Call, the engine's Stop) is a     *)
(* point where other goroutines and the environment may interleave, so a   *)
(* facade function is one action per blocking call, and the code between   *)
(* two blocking calls is part of the action that follows the first.        *)
(***************************************************************************)
EXTENDS Naturals, Sequences, FiniteSets, TLC

VARIABLES
    node,      \* what NewNode returned: the Node's fields, or nil and an error
    engine,    \* the bindings.Node handle behind s.server
    crashed,   \* the process died (a fault in the C engine)
    call       \* per caller goroutine: the facade call it is in

vars == <<node, engine, crashed, call>>

-----------------------------------------------------------------------------
(* Bounds of the model.                                                    *)

MaxNodeID == 1
MaxDialFails == 1
MaxReleases == 2

\* The caller goroutines.
Threads == {"g1", "g2"}
\* The ids NewNode is given, and the ids of the cluster's members: the
\* node's own and one more.
NodeIDs == 1..MaxNodeID
ClusterIDs == 1..(MaxNodeID + 1)

\* The dial function of a call fails its first n attempts and then
\* succeeds; DialNever is the dial function of an unreachable cluster.
DialNever == MaxDialFails + 1
DialBehaviours == 0..DialNever

Addresses == {"10.0.0.1:9001"}
\* WithNodeBindAddress overrides; "" is the option left unset.
BindOverrides == {"", "@custom"}

-----------------------------------------------------------------------------
(* Errors.  An error is its chain of messages, outermost first; the nil    *)
(* error is the empty chain.                                               *)

Nil == <<>>

NewError(msg) == <<msg>>

\* errors.Wrap(err, msg): nil stays nil, otherwise msg is put in front.
Wrap(err, msg) == IF err = Nil THEN Nil ELSE <<msg>> \o err

\* A returned value: the nil pointer or slice, or a value.
NULL == [nil |-> TRUE, v |-> <<>>]
Value(v) == [nil |-> FALSE, v |-> v]

ErrNoAvailableLeader == NewError("no available dqlite leader server found")
ErrCanceled == NewError("context canceled")
ErrUnreachable == NewError("peer unreachable")
ErrPeerClosed == NewError("peer closed the connection")
ErrRefused == NewError("peer refused the request")
ErrStart == NewError("engine failed to start")
ErrStop == NewError("engine failed to stop")
ErrNewEngine == NewError("engine could not be created")
ErrSetDialFunc == NewError("engine refused the dial function")
ErrSetBindAddress == NewError("engine refused the bind address")

-----------------------------------------------------------------------------
(* NewNode: the node's identity.                                           *)

Digits == <<"0", "1", "2", "3", "4", "5", "6", "7", "8", "9">>

RECURSIVE Itoa(_)
Itoa(n) == IF n < 10 THEN Digits[n + 1]
           ELSE Itoa(n \div 10) \o Digits[(n % 10) + 1]

\* A NewNode that ignores the WithNodeBindAddress option.
NodeBindAddressFromID(id, override) == "@dqlite-" \o Itoa(id)

\* fmt.Sprintf("@dqlite-%d", info.ID), unless the option overrides it.
NodeBindAddress(id, override) ==
    IF override # "" THEN override ELSE "@dqlite-" \o Itoa(id)

\* The options given to NewNode: a bind address override ("" for none) and
\* whether WithNodeDialFunc gave a dial function.
NodeOptions == [BindAddress : BindOverrides, DialFunc : BOOLEAN]

\* The engine call of NewNode that fails, if any.
EngineFaults == {"none", "NewNode", "SetDialFunc", "SetBindAddress"}

NoNode(err) ==
    [nil |-> TRUE, id |-> 0, address |-> "", bindAddress |-> "",
     override |-> "", err |-> err]


-----------------------------------------------------------------------------
(* The engine collaborator (bindings.Node).  A method returns a set of     *)
(* outcomes: the handle afterwards, the error, and whether the process     *)
(* faulted.  A method invoked on a released handle is a use of freed       *)
(* memory: it may fail, appear to work, or fault.                          *)

NewEngine(bindAddress) ==
    [state |-> "created", releases |-> 0, misused |-> FALSE,
     bindAddress |-> bindAddress]

Outcome(eng, err, crash) == [engine |-> eng, err |-> err, crash |-> crash]

Misuse(eng) == [eng EXCEPT !.misused = TRUE]

EngineStart(eng) ==
    IF eng.state = "released"
    THEN {Outcome(Misuse(eng), e, c) : e \in {Nil, ErrStart}, c \in BOOLEAN}
    ELSE {Outcome([eng EXCEPT !.state = "running"], Nil, FALSE),
          Outcome(eng, ErrStart, FALSE)}

EngineStop(eng) ==
    IF eng.state = "released"
    THEN {Outcome(Misuse(eng), e, c) : e \in {Nil, ErrStop}, c \in BOOLEAN}
    ELSE {Outcome([eng EXCEPT !.state = "stopped"], Nil, FALSE),
          Outcome(eng, ErrStop, FALSE)}

Release(eng) ==
    [eng EXCEPT !.state = "released",
                !.releases = IF @ < MaxReleases THEN @ + 1 ELSE @]

EngineClose(eng) ==
    IF eng.state = "released"
    THEN {Outcome(Release(Misuse(eng)), Nil, c) : c \in BOOLEAN}
    ELSE {Outcome(Release(eng), Nil, FALSE)}

EngineGetBindAddress(eng) ==
    IF eng.state = "released"
    THEN {Outcome(Misuse(eng), Nil, c) : c \in BOOLEAN}
    ELSE {Outcome(eng, Nil, FALSE)}

\* NewNode(info, dir, options...): the Node and error it returns, and the
\* engine handle it leaves behind.
NewNode(id, address, o, fault) ==
    IF fault = "NewNode"
    THEN [node |-> NoNode(ErrNewEngine),
          engine |-> [NewEngine("") EXCEPT !.state = "none"]]
    ELSE IF o.DialFunc /\ fault = "SetDialFunc"
    THEN [node |-> NoNode(ErrSetDialFunc), engine |-> NewEngine("")]
    ELSE LET bindAddress == NodeBindAddress(id, o.BindAddress)
         IN IF fault = "SetBindAddress"
            THEN [node |-> NoNode(ErrSetBindAddress), engine |-> NewEngine("")]
            ELSE [node |-> [nil |-> FALSE, id |-> id, address |-> address,
                            bindAddress |-> bindAddress,
                            override |-> o.BindAddress, err |-> Nil],
                  engine |-> NewEngine(bindAddress)]

-----------------------------------------------------------------------------
(* A facade call of one goroutine.                                         *)

NoResponse == [mtype |-> "none", body |-> <<>>]

IdleCall ==
    [op |-> "none",            \* the facade function
     pc |-> "idle",            \* idle, connect, call, call2, release, done
     ctx |-> "active",         \* active, cancelledAtEntry, cancelled
     id |-> 0,                 \* Leave's id argument
     dialFails |-> 0,          \* the dial function's behaviour
     dials |-> 0,              \* dial attempts made by this call
     target |-> "",            \* the address connected to
     version |-> "none",       \* the protocol version asked for
     conn |-> "none",          \* none, open, closed
     sent |-> <<>>,            \* the requests written, in order
     acked |-> <<>>,           \* the requests answered without error
     response |-> NoResponse,  \* the response buffer
     val |-> NULL,             \* the value returned
     err |-> Nil,              \* the error returned
     failStep |-> "none",      \* the step that failed
     failErr |-> Nil,          \* the error that step got
     onReleased |-> FALSE]     \* it invoked a method of the released handle

CtxDone(c) == c.ctx # "active"

Free(t) == call[t].pc = "idle"

\* There is a Node to call methods of.
HasNode == ~node.nil

\* A function without its defer c.Close().
DeferredCloseMissing(conn) == conn

\* The function returns: its deferred Close of the connection runs.
DeferredClose(conn) == IF conn = "open" THEN "closed" ELSE conn

Return(c, val, err) ==
    [c EXCEPT !.pc = "done", !.val = val, !.err = err]

Fail(c, step, err) == [c EXCEPT !.failStep = step, !.failErr = err]

\* A call of op that is about to invoke a method of the engine handle.
EngineCall(c, op) ==
    [c EXCEPT !.op = op, !.onReleased = @ \/ engine.state = "released"]

\* The caller has the result of its call and is free to make another.
Idle(t) ==
    /\ ~crashed
    /\ call[t].pc = "done"
    /\ call' = [call EXCEPT ![t] = IdleCall]
    /\ UNCHANGED <<node, engine, crashed>>

-----------------------------------------------------------------------------
(* Start, BindAddress, Close.                                              *)

Start(t, out) ==
    /\ ~crashed
    /\ HasNode
    /\ Free(t)
    /\ out \in EngineStart(engine)
    /\ engine' = out.engine
    /\ crashed' = out.crash
    /\ LET c == EngineCall(IdleCall, "Start")
       IN call' = [call EXCEPT ![t] =
                     IF out.crash THEN [c EXCEPT !.pc = "fault"]
                     ELSE Return(IF out.err # Nil THEN Fail(c, "start", out.err)
                                 ELSE c, NULL, out.err)]
    /\ UNCHANGED node

BindAddress(t, out) ==
    /\ ~crashed
    /\ HasNode
    /\ Free(t)
    /\ out \in EngineGetBindAddress(engine)
    /\ engine' = out.engine
    /\ crashed' = out.crash
    /\ LET c == EngineCall(IdleCall, "BindAddress")
       IN call' = [call EXCEPT ![t] =
                     IF out.crash THEN [c EXCEPT !.pc = "fault"]
                     ELSE Return(c, Value(out.engine.bindAddress), Nil)]
    /\ UNCHANGED node

\* Close releasing the engine's resources as it sends the stop signal.
CloseStopReleasesFirst(t, out) ==
    /\ ~crashed
    /\ HasNode
    /\ Free(t)
    /\ out \in EngineStop(engine)
    /\ engine' = Release(out.engine)
    /\ crashed' = out.crash
    /\ LET c == EngineCall(IdleCall, "Close")
       IN call' = [call EXCEPT ![t] =
                     IF out.crash THEN [c EXCEPT !.pc = "fault"]
                     ELSE IF out.err # Nil
                     THEN Return(Fail(c, "stop", out.err), NULL,
                                 Wrap(out.err, "server failed to stop"))
                     ELSE [c EXCEPT !.pc = "release"]]
    /\ UNCHANGED node

\* Close, up to the return of s.server.Stop().
CloseStop(t, out) ==
    /\ ~crashed
    /\ HasNode
    /\ Free(t)
    /\ out \in EngineStop(engine)
    /\ engine' = out.engine
    /\ crashed' = out.crash
    /\ LET c == EngineCall(IdleCall, "Close")
       IN call' = [call EXCEPT ![t] =
                     IF out.crash THEN [c EXCEPT !.pc = "fault"]
                     ELSE IF out.err # Nil
                     THEN Return(Fail(c, "stop", out.err), NULL,
                                 Wrap(out.err, "server failed to stop"))
                     ELSE [c EXCEPT !.pc = "release"]]
    /\ UNCHANGED node

\* Close, from s.server.Close() to the return.
CloseRelease(t, out) ==
    /\ ~crashed
    /\ call[t].pc = "release"
    /\ out \in EngineClose(engine)
    /\ engine' = out.engine
    /\ crashed' = out.crash
    /\ LET c == EngineCall(call[t], "Close")
       IN call' = [call EXCEPT ![t] =
                     IF out.crash THEN [c EXCEPT !.pc = "fault"]
                     ELSE Return(c, NULL, Nil)]
    /\ UNCHANGED node

-----------------------------------------------------------------------------
(* The message protocol: requests, responses and their decoding.           *)

VersionLegacy == "VersionLegacy"
VersionOne == "VersionOne"

EncodeCluster == [mtype |-> "Cluster", id |-> 0, address |-> ""]
EncodeLeader == [mtype |-> "Leader", id |-> 0, address |-> ""]
EncodeJoin(id, address) == [mtype |-> "Join", id |-> id, address |-> address]
EncodePromote(id) == [mtype |-> "Promote", id |-> id, address |-> ""]
EncodeRemove(id) == [mtype |-> "Remove", id |-> id, address |-> ""]

FailureResponse == [mtype |-> "Failure", body |-> <<0>>]
EmptyResponse == [mtype |-> "Empty", body |-> <<>>]

\* A Node response: the leader's id and address.
NodeResponse(id, address) == [mtype |-> "Node", body |-> <<id, address>>]
\* The response of a peer that knows no leader: id 0 and an empty address.
NoLeaderResponse == NodeResponse(0, "")
TruncatedNodeResponse == [mtype |-> "Node", body |-> <<1>>]

\* A Nodes response: a count and that many (id, address) pairs.
NodesResponse1(id, address) == [mtype |-> "Nodes", body |-> <<1, id, address>>]
TruncatedNodesResponse(id, address) ==
    [mtype |-> "Nodes", body |-> <<2, id, address>>]

\* What a peer may answer to a request.
Responses(mtype) ==
    CASE mtype = "Leader" ->
           {NodeResponse(id, a) : id \in ClusterIDs, a \in Addresses}
             \cup {NoLeaderResponse, TruncatedNodeResponse, FailureResponse}
      [] mtype = "Cluster" ->
           {NodesResponse1(id, a) : id \in ClusterIDs, a \in Addresses}
             \cup {TruncatedNodesResponse(1, a) : a \in Addresses}
             \cup {FailureResponse}
      [] OTHER -> {EmptyResponse}

ErrResponseType == NewError("unexpected response type")
ErrShortBody == NewError("short response body")

DecodeNode(response) ==
    IF response.mtype # "Node"
    THEN [id |-> 0, address |-> "", err |-> ErrResponseType]
    ELSE IF Len(response.body) < 2
    THEN [id |-> 0, address |-> "", err |-> ErrShortBody]
    ELSE [id |-> response.body[1], address |-> response.body[2], err |-> Nil]

DecodeNodes(response) ==
    IF response.mtype # "Nodes"
    THEN [servers |-> <<>>, err |-> ErrResponseType]
    ELSE IF Len(response.body) < 1
    THEN [servers |-> <<>>, err |-> ErrShortBody]
    ELSE LET n == response.body[1]
         IN IF Len(response.body) < 1 + 2 * n
            THEN [servers |-> <<>>, err |-> ErrShortBody]
            ELSE [servers |->
                    [i \in 1..n |-> [ID |-> response.body[2 * i],
                                     Address |-> response.body[2 * i + 1]]],
                  err |-> Nil]

\* Protocol.Call(ctx, request, response) on an open connection: the results
\* it may have once the request is written.  A cancelled context fails it.
\* The errors of a Call other than a done context.  The answer to a Join,
\* Promote or Remove request is an acknowledgement only, whose success is the
\* Call returning no error: a peer's refusal of the request is an error.
CallErrors(request) ==
    {ErrUnreachable, ErrPeerClosed}
      \cup (IF request.mtype \in {"Join", "Promote", "Remove"}
            THEN {ErrRefused} ELSE {})

CallResults(c, request) ==
    IF CtxDone(c)
    THEN {[err |-> ErrCanceled, response |-> NoResponse]}
    ELSE {[err |-> Nil, response |-> r] : r \in Responses(request.mtype)}
           \cup {[err |-> e, response |-> NoResponse] : e \in CallErrors(request)}

\* The request of the Call in flight.
InFlight(c) == c.sent[Len(c.sent)]

-----------------------------------------------------------------------------
(* Connecting.                                                             *)

DialSucceeds(c) == c.dialFails # DialNever /\ c.dials + 1 > c.dialFails

CountDial(c) == IF c.dials < DialNever THEN c.dials + 1 ELSE c.dials

\* protocol.Connect(ctx, dial, address, version): one dial and handshake.
Connect(c, address, version) ==
    IF CtxDone(c)
    THEN [status |-> "failed", err |-> ErrCanceled, call |-> c]
    ELSE IF DialSucceeds(c)
    THEN [status |-> "connected", err |-> Nil,
          call |-> [c EXCEPT !.dials = CountDial(c), !.conn = "open",
                             !.target = address, !.version = version]]
    ELSE [status |-> "failed", err |-> ErrUnreachable,
          call |-> [c EXCEPT !.dials = CountDial(c)]]

\* One round of Connector.Connect(ctx): the context is looked at, then one
\* dial is attempted; a failed dial is followed by a backoff and a retry.
ConnectorConnect(c) ==
    IF CtxDone(c)
    THEN [status |-> "failed", err |-> ErrNoAvailableLeader, call |-> c]
    ELSE IF DialSucceeds(c)
    THEN [status |-> "connected", err |-> Nil,
          call |-> [c EXCEPT !.dials = CountDial(c), !.conn = "open",
                             !.target = "store", !.version = VersionOne]]
    ELSE [status |-> "retry", err |-> Nil,
          call |-> [c EXCEPT !.dials = CountDial(c)]]

\* c.Call(ctx, &request, &response) begins: the request is written.
Send(c, request, pc) == [c EXCEPT !.sent = Append(@, request), !.pc = pc]

\* The Call in flight returned without error.
Acked(c, response) ==
    [c EXCEPT !.acked = Append(@, InFlight(c)), !.response = response]

\* A return after the connection was opened.
CloseAndReturn(c, val, err) ==
    Return([c EXCEPT !.conn = DeferredClose(@)], val, err)

EntryContexts == {"active", "cancelledAtEntry"}

Enter(t, op, ctx, n, id) ==
    /\ ~crashed
    /\ Free(t)
    /\ call' = [call EXCEPT ![t] =
                  [IdleCall EXCEPT !.op = op, !.pc = "connect", !.ctx = ctx,
                                   !.dialFails = n, !.id = id]]
    /\ UNCHANGED <<node, engine, crashed>>

\* The results the Call in flight of thread t may have.
Results(t) ==
    IF call[t].pc \in {"call", "call2"}
    THEN CallResults(call[t], InFlight(call[t]))
    ELSE {}

At(t, op, pc) == ~crashed /\ call[t].op = op /\ call[t].pc = pc

\* The caller's context is cancelled, or its deadline passes, during a call.
Cancel(t) ==
    /\ ~crashed
    /\ call[t].pc \in {"connect", "call", "call2"}
    /\ call[t].ctx = "active"
    /\ call' = [call EXCEPT ![t].ctx = "cancelled"]
    /\ UNCHANGED <<node, engine, crashed>>

-----------------------------------------------------------------------------
(* Cluster and Leader.                                                     *)

ClusterEnter(t, ctx, n) == HasNode /\ Enter(t, "Cluster", ctx, n, 0)

\* Cluster asking the engine handle for the address to connect to.
ClusterConnectViaEngine(t) ==
    /\ At(t, "Cluster", "connect")
    /\ LET out == CHOOSE o \in EngineGetBindAddress(engine) : ~o.crash
           r == Connect(EngineCall(call[t], "Cluster"),
                        out.engine.bindAddress, VersionLegacy)
       IN /\ engine' = out.engine
          /\ call' = [call EXCEPT ![t] =
                        IF r.err # Nil
                        THEN Return(Fail(r.call, "connect", r.err), NULL,
                                    Wrap(r.err, "failed to connect to dqlite task"))
                        ELSE Send(r.call, EncodeCluster, "call")]
    /\ UNCHANGED <<node, crashed>>

ClusterConnect(t) ==
    /\ At(t, "Cluster", "connect")
    /\ LET r == Connect(call[t], node.bindAddress, VersionLegacy)
       IN call' = [call EXCEPT ![t] =
                     IF r.err # Nil
                     THEN Return(Fail(r.call, "connect", r.err), NULL,
                                 Wrap(r.err, "failed to connect to dqlite task"))
                     ELSE Send(r.call, EncodeCluster, "call")]
    /\ UNCHANGED <<node, engine, crashed>>

\* Cluster returning the errors of Call and of the decoding as it got them.
ClusterCallUnwrapped(t, res) ==
    /\ At(t, "Cluster", "call")
    /\ res \in Results(t)
    /\ call' = [call EXCEPT ![t] =
                  IF res.err # Nil
                  THEN CloseAndReturn(Fail(@, "call", res.err), NULL, res.err)
                  ELSE LET c == Acked(@, res.response)
                           d == DecodeNodes(res.response)
                       IN IF d.err # Nil
                          THEN CloseAndReturn(Fail(c, "decode", d.err), NULL, d.err)
                          ELSE CloseAndReturn(c, Value(d.servers), Nil)]
    /\ UNCHANGED <<node, engine, crashed>>

ClusterCall(t, res) ==
    /\ At(t, "Cluster", "call")
    /\ res \in Results(t)
    /\ call' = [call EXCEPT ![t] =
                  IF res.err # Nil
                  THEN CloseAndReturn(Fail(@, "call", res.err), NULL,
                                      Wrap(res.err, "failed to send Cluster request"))
                  ELSE LET c == Acked(@, res.response)
                           d == DecodeNodes(res.response)
                       IN IF d.err # Nil
                          THEN CloseAndReturn(Fail(c, "decode", d.err), NULL,
                                              Wrap(d.err, "failed to parse Node response"))
                          ELSE CloseAndReturn(c, Value(d.servers), Nil)]
    /\ UNCHANGED <<node, engine, crashed>>

LeaderEnter(t, ctx, n) == HasNode /\ Enter(t, "Leader", ctx, n, 0)

\* Leader asking for the legacy protocol version, as Cluster does.
LeaderConnectLegacy(t) ==
    /\ At(t, "Leader", "connect")
    /\ LET r == Connect(call[t], node.bindAddress, VersionLegacy)
       IN call' = [call EXCEPT ![t] =
                     IF r.err # Nil
                     THEN Return(Fail(r.call, "connect", r.err), NULL,
                                 Wrap(r.err, "failed to connect to dqlite task"))
                     ELSE Send(r.call, EncodeLeader, "call")]
    /\ UNCHANGED <<node, engine, crashed>>

LeaderConnect(t) ==
    /\ At(t, "Leader", "connect")
    /\ LET r == Connect(call[t], node.bindAddress, VersionOne)
       IN call' = [call EXCEPT ![t] =
                     IF r.err # Nil
                     THEN Return(Fail(r.call, "connect", r.err), NULL,
                                 Wrap(r.err, "failed to connect to dqlite task"))
                     ELSE Send(r.call, EncodeLeader, "call")]
    /\ UNCHANGED <<node, engine, crashed>>

LeaderCall(t, res) ==
    /\ At(t, "Leader", "call")
    /\ res \in Results(t)
    /\ call' = [call EXCEPT ![t] =
                  IF res.err # Nil
                  THEN CloseAndReturn(Fail(@, "call", res.err), NULL,
                                      Wrap(res.err, "failed to send Leader request"))
                  ELSE LET c == Acked(@, res.response)
                           d == DecodeNode(res.response)
                       IN IF d.err # Nil
                          THEN CloseAndReturn(Fail(c, "decode", d.err), NULL,
                                              Wrap(d.err, "failed to parse Node response"))
                          ELSE CloseAndReturn(
                                 c, Value([ID |-> d.id, Address |-> d.address]), Nil)]
    /\ UNCHANGED <<node, engine, crashed>>

-----------------------------------------------------------------------------
(* Join and Leave.                                                         *)

JoinEnter(t, ctx, n) == HasNode /\ Enter(t, "Join", ctx, n, 0)

\* Join handing the Connector a fresh background context, not the caller's.
JoinConnectBackground(t) ==
    /\ At(t, "Join", "connect")
    /\ LET r == ConnectorConnect([call[t] EXCEPT !.ctx = "active"])
           c == [r.call EXCEPT !.ctx = call[t].ctx]
       IN call' = [call EXCEPT ![t] =
                     IF r.status = "retry" THEN c
                     ELSE IF r.err # Nil
                     THEN Return(Fail(c, "connect", r.err), NULL, r.err)
                     ELSE Send(c, EncodeJoin(node.id, node.address), "call")]
    /\ UNCHANGED <<node, engine, crashed>>

\* Join with a Connector that is given no retry strategy: the first failed
\* dial ends the connect step.
JoinConnectNoRetry(t) ==
    /\ At(t, "Join", "connect")
    /\ LET r == ConnectorConnect(call[t])
       IN call' = [call EXCEPT ![t] =
                     IF r.status = "retry"
                     THEN Return(Fail(r.call, "connect", ErrNoAvailableLeader),
                                 NULL, ErrNoAvailableLeader)
                     ELSE IF r.err # Nil
                     THEN Return(Fail(r.call, "connect", r.err), NULL, r.err)
                     ELSE Send(r.call, EncodeJoin(node.id, node.address), "call")]
    /\ UNCHANGED <<node, engine, crashed>>

JoinConnect(t) ==
    /\ At(t, "Join", "connect")
    /\ LET r == ConnectorConnect(call[t])
       IN call' = [call EXCEPT ![t] =
                     IF r.status = "retry" THEN r.call
                     ELSE IF r.err # Nil
                     THEN Return(Fail(r.call, "connect", r.err), NULL, r.err)
                     ELSE Send(r.call, EncodeJoin(node.id, node.address), "call")]
    /\ UNCHANGED <<node, engine, crashed>>

\* Join not looking at the error of the Join request's Call.
JoinCallJoinUnchecked(t, res) ==
    /\ At(t, "Join", "call")
    /\ res \in Results(t)
    /\ call' = [call EXCEPT ![t] =
                  Send(IF res.err # Nil THEN @ ELSE Acked(@, res.response),
                       EncodePromote(node.id), "call2")]
    /\ UNCHANGED <<node, engine, crashed>>

JoinCallJoin(t, res) ==
    /\ At(t, "Join", "call")
    /\ res \in Results(t)
    /\ call' = [call EXCEPT ![t] =
                  IF res.err # Nil
                  THEN CloseAndReturn(Fail(@, "join", res.err), NULL, res.err)
                  ELSE Send(Acked(@, res.response), EncodePromote(node.id), "call2")]
    /\ UNCHANGED <<node, engine, crashed>>

\* Join dropping the error of the Promote request's Call.
JoinCallPromoteSwallowed(t, res) ==
    /\ At(t, "Join", "call2")
    /\ res \in Results(t)
    /\ call' = [call EXCEPT ![t] =
                  IF res.err # Nil
                  THEN CloseAndReturn(Fail(@, "promote", res.err), NULL, Nil)
                  ELSE CloseAndReturn(Acked(@, res.response), NULL, Nil)]
    /\ UNCHANGED <<node, engine, crashed>>

JoinCallPromote(t, res) ==
    /\ At(t, "Join", "call2")
    /\ res \in Results(t)
    /\ call' = [call EXCEPT ![t] =
                  IF res.err # Nil
                  THEN CloseAndReturn(Fail(@, "promote", res.err), NULL, res.err)
                  ELSE CloseAndReturn(Acked(@, res.response), NULL, Nil)]
    /\ UNCHANGED <<node, engine, crashed>>

LeaveEnter(t, ctx, n, id) == Enter(t, "Leave", ctx, n, id)

\* Leave handing the Connector a fresh background context, not the caller's.
LeaveConnectBackground(t) ==
    /\ At(t, "Leave", "connect")
    /\ LET r == ConnectorConnect([call[t] EXCEPT !.ctx = "active"])
           c == [r.call EXCEPT !.ctx = call[t].ctx]
       IN call' = [call EXCEPT ![t] =
                     IF r.status = "retry" THEN c
                     ELSE IF r.err # Nil
                     THEN Return(Fail(c, "connect", r.err), NULL, r.err)
                     ELSE Send(c, EncodeRemove(c.id), "call")]
    /\ UNCHANGED <<node, engine, crashed>>

\* Leave asking for the removal of a fixed id, not of the id it is given.
LeaveConnectRemovesFirst(t) ==
    /\ At(t, "Leave", "connect")
    /\ LET r == ConnectorConnect(call[t])
       IN call' = [call EXCEPT ![t] =
                     IF r.status = "retry" THEN r.call
                     ELSE IF r.err # Nil
                     THEN Return(Fail(r.call, "connect", r.err), NULL, r.err)
                     ELSE Send(r.call, EncodeRemove(1), "call")]
    /\ UNCHANGED <<node, engine, crashed>>

LeaveConnect(t) ==
    /\ At(t, "Leave", "connect")
    /\ LET r == ConnectorConnect(call[t])
       IN call' = [call EXCEPT ![t] =
                     IF r.status = "retry" THEN r.call
                     ELSE IF r.err # Nil
                     THEN Return(Fail(r.call, "connect", r.err), NULL, r.err)
                     ELSE Send(r.call, EncodeRemove(r.call.id), "call")]
    /\ UNCHANGED <<node, engine, crashed>>

LeaveCall(t, res) ==
    /\ At(t, "Leave", "call")
    /\ res \in Results(t)
    /\ call' = [call EXCEPT ![t] =
                  IF res.err # Nil
                  THEN CloseAndReturn(Fail(@, "remove", res.err), NULL, res.err)
                  ELSE CloseAndReturn(Acked(@, res.response), NULL, Nil)]
    /\ UNCHANGED <<node, engine, crashed>>

-----------------------------------------------------------------------------

Init ==
    /\ \E id \in NodeIDs, a \in Addresses, o \in NodeOptions, f \in EngineFaults :
          /\ node = NewNode(id, a, o, f).node
          /\ engine = NewNode(id, a, o, f).engine
    /\ crashed = FALSE
    /\ call = [t \in Threads |-> IdleCall]

Next ==
    \E t \in Threads :
        \/ \E out \in EngineStart(engine) : Start(t, out)
        \/ \E out \in EngineGetBindAddress(engine) : BindAddress(t, out)
        \/ \E out \in EngineStop(engine) : CloseStop(t, out)
        \/ \E out \in EngineClose(engine) : CloseRelease(t, out)
        \/ \E ctx \in EntryContexts, n \in DialBehaviours : ClusterEnter(t, ctx, n)
        \/ ClusterConnect(t)
        \/ \E res \in Results(t) : ClusterCall(t, res)
        \/ \E ctx \in EntryContexts, n \in DialBehaviours : LeaderEnter(t, ctx, n)
        \/ LeaderConnect(t)
        \/ \E res \in Results(t) : LeaderCall(t, res)
        \/ \E ctx \in EntryContexts, n \in DialBehaviours : JoinEnter(t, ctx, n)
        \/ JoinConnect(t)
        \/ \E res \in Results(t) : JoinCallJoin(t, res)
        \/ \E res \in Results(t) : JoinCallPromote(t, res)
        \/ \E ctx \in EntryContexts, n \in DialBehaviours, id \in ClusterIDs :
              LeaveEnter(t, ctx, n, id)
        \/ LeaveConnect(t)
        \/ \E res \in Results(t) : LeaveCall(t, res)
        \/ Cancel(t)
        \/ Idle(t)

Spec == Init /\ [][Next]_vars

-----------------------------------------------------------------------------
(* The callers making network calls only, with the progress the runtime    *)
(* gives them: a goroutine that can go on by itself does (a dial attempt   *)
(* ends, a backoff sleep ends, a Call whose context is done returns).  A   *)
(* peer's answer is the peer's to give and is not assumed.                 *)

NetNext ==
    \E t \in Threads :
        \/ \E ctx \in EntryContexts, n \in DialBehaviours : ClusterEnter(t, ctx, n)
        \/ ClusterConnect(t)
        \/ \E res \in Results(t) : ClusterCall(t, res)
        \/ \E ctx \in EntryContexts, n \in DialBehaviours : LeaderEnter(t, ctx, n)
        \/ LeaderConnect(t)
        \/ \E res \in Results(t) : LeaderCall(t, res)
        \/ \E ctx \in EntryContexts, n \in DialBehaviours : JoinEnter(t, ctx, n)
        \/ JoinConnect(t)
        \/ \E res \in Results(t) : JoinCallJoin(t, res)
        \/ \E res \in Results(t) : JoinCallPromote(t, res)
        \/ \E ctx \in EntryContexts, n \in DialBehaviours, id \in ClusterIDs :
              LeaveEnter(t, ctx, n, id)
        \/ LeaveConnect(t)
        \/ \E res \in Results(t) : LeaveCall(t, res)
        \/ Cancel(t)
        \/ Idle(t)

Proceeds(t) ==
    \/ ClusterConnect(t)
    \/ LeaderConnect(t)
    \/ JoinConnect(t)
    \/ LeaveConnect(t)
    \/ /\ CtxDone(call[t])
       /\ \E res \in Results(t) :
             \/ ClusterCall(t, res)
             \/ LeaderCall(t, res)
             \/ JoinCallJoin(t, res)
             \/ JoinCallPromote(t, res)
             \/ LeaveCall(t, res)

FairSpec == Init /\ [][NetNext]_vars /\ \A t \in Threads : WF_vars(Proceeds(t))

-----------------------------------------------------------------------------
(* The claims.                                                             *)

NetOps == {"Cluster", "Leader", "Join", "Leave"}

Done(t, op) == call[t].op = op /\ call[t].pc = "done"

Active(t) == call[t].pc \in {"connect", "call", "call2"}

\* C1: every Close that has returned has released the engine, also when the
\* engine's Stop failed, and in that case it returned the wrapped stop error.
C1_CloseAlwaysReleases ==
    \A t \in Threads :
        Done(t, "Close") =>
            /\ engine.state = "released"
            /\ call[t].failStep = "stop" =>
                   call[t].err = Wrap(call[t].failErr, "server failed to stop")

\* C2: in a Join, a Promote request is written only as the second request,
\* after the Join(selfID, selfAddress) request was answered without error; a
\* Join whose connect or Join step failed has written no Promote.
C2_PromoteAfterJoinAck ==
    \A t \in Threads :
        call[t].op = "Join" =>
            /\ \A i \in 1..Len(call[t].sent) :
                  call[t].sent[i].mtype = "Promote" =>
                      /\ i = 2
                      /\ call[t].sent[2] = EncodePromote(node.id)
                      /\ call[t].sent[1] = EncodeJoin(node.id, node.address)
                      /\ Len(call[t].acked) >= 1
                      /\ call[t].acked[1] = call[t].sent[1]
            /\ call[t].failStep \in {"connect", "join"} =>
                  \A i \in 1..Len(call[t].sent) : call[t].sent[i].mtype # "Promote"

C2_Witness ==
    \E t \in Threads :
        /\ call[t].op = "Join"
        /\ Len(call[t].sent) = 2
        /\ call[t].sent[2].mtype = "Promote"

\* C3: a Join that has returned returned nil exactly when it connected and
\* both its Join and its Promote request were answered without error; when a
\* step failed, nothing was sent after it and the error returned is that
\* step's error, which is not nil.
C3_JoinNilIffAllSucceeded ==
    \A t \in Threads :
        Done(t, "Join") =>
            /\ call[t].err = Nil <=>
                  /\ call[t].conn # "none"
                  /\ call[t].acked = <<EncodeJoin(node.id, node.address),
                                       EncodePromote(node.id)>>
            /\ call[t].err = Nil <=> call[t].failStep = "none"
            /\ call[t].failStep # "none" =>
                  /\ call[t].err # Nil
                  /\ call[t].err = call[t].failErr
            /\ call[t].failStep = "connect" => call[t].sent = <<>>
            /\ call[t].failStep = "join" => Len(call[t].sent) = 1

C3_Witness ==
    \E t \in Threads :
        /\ Done(t, "Join")
        /\ call[t].err = Nil
        /\ Len(call[t].acked) = 2

\* C4: two Joins that failed of the same underlying cause, one at its Join
\* step and one at its Promote step, return different errors.
C4_JoinErrorNamesStep ==
    \A t1, t2 \in Threads :
        /\ Done(t1, "Join") /\ call[t1].failStep = "join"
        /\ Done(t2, "Join") /\ call[t2].failStep = "promote"
        /\ call[t1].failErr = call[t2].failErr
        => call[t1].err # call[t2].err

\* C5: a Leader that has returned returned (nil, nil) when the response says
\* there is no leader, (nil, error) when the response did not decode, and a
\* pointer only when the response names a leader.
C5_LeaderNilWhenNoLeader ==
    \A t \in Threads :
        Done(t, "Leader") =>
            /\ call[t].response = NoLeaderResponse =>
                  call[t].val.nil /\ call[t].err = Nil
            /\ call[t].failStep = "decode" =>
                  call[t].val.nil /\ call[t].err # Nil
            /\ ~call[t].val.nil =>
                  call[t].response \in
                      {NodeResponse(id, a) : id \in ClusterIDs, a \in Addresses}

\* C6: when Cluster, Leader, Join or Leave has returned, the connection it
\* opened is closed, whatever the way out, and a call whose connect step
\* failed has no connection and closed none.
C6_ConnectionClosedOnReturn ==
    \A t \in Threads :
        call[t].pc = "done" /\ call[t].op \in NetOps =>
            /\ call[t].conn # "open"
            /\ call[t].failStep = "connect" => call[t].conn = "none"
            /\ call[t].failStep # "connect" => call[t].conn = "closed"

C6_Witness ==
    \E t \in Threads :
        /\ Done(t, "Join")
        /\ call[t].failStep = "promote"
        /\ call[t].failErr = ErrCanceled
        /\ call[t].conn = "closed"

\* C7: no Close invokes an engine method on a handle that an earlier Close
\* released or faults, the engine is released at most once, and a Close
\* whose Stop failed returned that error.
C7_SecondCloseSafe ==
    /\ engine.releases <= 1
    /\ \A t \in Threads :
          call[t].op = "Close" =>
              /\ ~call[t].onReleased
              /\ call[t].pc # "fault"
              /\ call[t].failStep = "stop" => call[t].err # Nil

\* C9: a Join or Leave entered with its context already cancelled dials
\* nothing, opens no connection and writes no request, and returns the
\* Connector's connection error.
C9_NoRetryOnCancelledEntry ==
    \A t \in Threads :
        call[t].op \in {"Join", "Leave"} /\ call[t].ctx = "cancelledAtEntry" =>
            /\ call[t].dials = 0
            /\ call[t].conn = "none"
            /\ call[t].sent = <<>>
            /\ call[t].pc = "done" =>
                  /\ call[t].failStep = "connect"
                  /\ call[t].err = ErrNoAvailableLeader

C9_Witness ==
    \E t \in Threads :
        /\ Done(t, "Join")
        /\ call[t].ctx = "cancelledAtEntry"
        /\ call[t].err # Nil

\* C10: a Cluster, Leader, Join or Leave whose context is done returns; and
\* the step it takes once its context is done is its return with an error,
\* with no dial attempted and no request written after the cancellation.
C10_ReturnsOnceCancelled ==
    /\ \A t \in Threads :
          (Active(t) /\ CtxDone(call[t])) ~> (call[t].pc = "done")
    /\ [][\A t \in Threads :
             (Active(t) /\ CtxDone(call[t]) /\ call'[t] # call[t]) =>
                 /\ call'[t].pc = "done"
                 /\ call'[t].err # Nil
                 /\ call'[t].dials = call[t].dials
                 /\ call'[t].sent = call[t].sent]_vars

C10_Witness ==
    \E t \in Threads :
        /\ Done(t, "Leave")
        /\ call[t].ctx = "cancelled"
        /\ call[t].dialFails = DialNever
        /\ call[t].failStep = "connect"

\* C11: in a Join or Leave whose dial function fails n times and then
\* succeeds, the connect step makes at most n + 1 dial attempts, ends in
\* failure only when the context is done, and ends with a connection exactly
\* on attempt n + 1, after which the call's request is written.
C11_ConnectsOnAttemptNPlus1 ==
    \A t \in Threads :
        call[t].op \in {"Join", "Leave"} /\ call[t].dialFails # DialNever =>
            /\ call[t].dials <= call[t].dialFails + 1
            /\ call[t].failStep = "connect" => CtxDone(call[t])
            /\ call[t].conn # "none" =>
                  /\ call[t].dials = call[t].dialFails + 1
                  /\ Len(call[t].sent) >= 1
                  /\ call[t].sent[1].mtype =
                        (IF call[t].op = "Join" THEN "Join" ELSE "Remove")
            /\ call[t].pc \in {"call", "call2", "done"}
                  /\ call[t].failStep # "connect" => call[t].conn # "none"

C11_Witness ==
    \E t \in Threads :
        /\ call[t].op = "Join"
        /\ call[t].dialFails = MaxDialFails
        /\ call[t].dials = MaxDialFails + 1
        /\ call[t].conn = "open"
        /\ call[t].ctx = "active"
        /\ Len(call[t].sent) = 1

\* C12: the Node's bindAddress is the WithNodeBindAddress override when one
\* is given and "@dqlite-<id>" otherwise, it is the address set on the
\* engine, and no call changes it.
C12_BindAddressFixed ==
    /\ [](HasNode =>
            /\ node.override # "" => node.bindAddress = node.override
            /\ node.override = "" /\ node.id = 1 => node.bindAddress = "@dqlite-1"
            /\ node.override = "" /\ node.id = 2 => node.bindAddress = "@dqlite-2"
            /\ node.override = "" => Len(node.bindAddress) > Len("@dqlite-")
            /\ engine.bindAddress = node.bindAddress)
    /\ [][node'.bindAddress = node.bindAddress
            /\ engine'.bindAddress = engine.bindAddress]_vars

C12_Witness ==
    \E t \in Threads :
        /\ HasNode
        /\ node.override = "@custom"
        /\ node.bindAddress = "@custom"
        /\ Done(t, "Close")
        /\ engine.state = "released"

\* C20: NewNode returns a Node and a nil error, or no Node and an error; and
\* when it returns no Node, no engine handle it created is left unreleased.
C20_NewNodeAllOrNothing ==
    /\ node.nil <=> node.err # Nil
    /\ node.nil => engine.state \in {"none", "released"}

\* C13: a Cluster or Leader that has returned after a failure returned a nil
\* result and the failing phase's error under that phase's description
\* ("failed to connect", "failed to send ... request", "failed to parse ...
\* response"), and ran no later phase: no request after a failed connect, no
\* decoded response after a failed Call; without a failure it returned no
\* error.
C13_QueryErrorsWrapped ==
    \A t \in Threads :
        call[t].pc = "done" /\ call[t].op \in {"Cluster", "Leader"} =>
            /\ call[t].failStep = "none" <=> call[t].err = Nil
            /\ call[t].failStep # "none" =>
                  /\ call[t].val.nil
                  /\ call[t].failErr # Nil
                  /\ Len(call[t].err) = Len(call[t].failErr) + 1
                  /\ Tail(call[t].err) = call[t].failErr
            /\ call[t].failStep = "connect" =>
                  /\ Head(call[t].err) = "failed to connect to dqlite task"
                  /\ call[t].sent = <<>>
                  /\ call[t].response = NoResponse
            /\ call[t].failStep = "call" =>
                  /\ Head(call[t].err) =
                        (IF call[t].op = "Cluster"
                         THEN "failed to send Cluster request"
                         ELSE "failed to send Leader request")
                  /\ call[t].response = NoResponse
            /\ call[t].failStep = "decode" =>
                  Head(call[t].err) = "failed to parse Node response"

C13_Witness ==
    \E t \in Threads :
        /\ Done(t, "Cluster")
        /\ call[t].failStep = "decode"
        /\ call[t].err = <<"failed to parse Node response", "short response body">>

\* C14: a Join or Leave that has returned after a failed connect or a failed
\* Call returned that error wrapped in one description of the phase, so a
\* connect failure and a send failure are told apart by the description.
C14_MembershipErrorsWrapped ==
    \A t \in Threads :
        call[t].pc = "done" /\ call[t].op \in {"Join", "Leave"}
          /\ call[t].failStep # "none" =>
            /\ Len(call[t].err) = Len(call[t].failErr) + 1
            /\ Tail(call[t].err) = call[t].failErr
            /\ Head(call[t].err) # Head(call[t].failErr)

\* C15: a Leave writes at most one request; once it has a connection it has
\* written exactly one, the Remove of the id it was given; and when it has
\* returned, it returned nil exactly when that Remove was answered without
\* error, and the error of the failed connect or Call otherwise.
C15_LeaveSendsOneRemove ==
    \A t \in Threads :
        call[t].op = "Leave" =>
            /\ Len(call[t].sent) <= 1
            /\ call[t].conn = "none" => call[t].sent = <<>>
            /\ call[t].conn # "none" =>
                  /\ Len(call[t].sent) = 1
                  /\ call[t].sent[1].mtype = "Remove"
                  /\ call[t].sent[1].id = call[t].id
            /\ call[t].pc = "done" =>
                  /\ call[t].err = Nil <=>
                        Len(call[t].acked) = 1 /\ call[t].acked[1].mtype = "Remove"
                  /\ call[t].err = Nil <=> call[t].failStep = "none"
                  /\ call[t].failStep # "none" =>
                        call[t].err # Nil /\ call[t].err = call[t].failErr
                  /\ call[t].failStep = "connect" <=> call[t].conn = "none"

C15_Witness ==
    \E t \in Threads :
        /\ Done(t, "Leave")
        /\ call[t].id = MaxNodeID + 1
        /\ call[t].sent = <<[mtype |-> "Remove", id |-> MaxNodeID + 1, address |-> ""]>>
        /\ call[t].err = ErrRefused

\* C16: the engine's resources are released only by a step of a Close that
\* stands after its s.server.Stop(), which it issued and which returned nil;
\* no other step releases them, and a Close stands there only after such a
\* Stop.
C16_ReleaseOnlyAfterStopReturned ==
    /\ [](\A t \in Threads :
            call[t].pc = "release" =>
                call[t].op = "Close" /\ call[t].failStep = "none")
    /\ [][(engine'.releases # engine.releases
             \/ (engine'.state = "released" /\ engine.state # "released")) =>
            \E t \in Threads :
                /\ call[t].op = "Close" /\ call[t].pc = "release"
                /\ call'[t].pc \in {"done", "fault"}]_vars

C16_Witness ==
    \E t \in Threads :
        /\ Done(t, "Close")
        /\ call[t].err = Nil
        /\ ~call[t].onReleased
        /\ engine.state = "released"
        /\ engine.releases = 1

\* C17: a Cluster or a Leader that has a connection has it to the Node's own
\* bind address, never to an address of the store, Cluster with the legacy
\* protocol version and Leader with version one, after one dial; and it has
\* written exactly one request on it, Cluster respectively Leader.  Without
\* a connection it has written nothing.
C17_QueriesConnectLocally ==
    \A t \in Threads :
        /\ call[t].op \in {"Cluster", "Leader"} =>
              /\ call[t].dials <= 1
              /\ call[t].conn = "none" => call[t].sent = <<>>
              /\ call[t].conn # "none" =>
                    /\ call[t].target = node.bindAddress
                    /\ call[t].target = NodeBindAddress(node.id, node.override)
                    /\ call[t].target # "store"
                    /\ call[t].dials = 1
        /\ call[t].op = "Cluster" /\ call[t].conn # "none" =>
              call[t].version = VersionLegacy /\ call[t].sent = <<EncodeCluster>>
        /\ call[t].op = "Leader" /\ call[t].conn # "none" =>
              call[t].version = VersionOne /\ call[t].sent = <<EncodeLeader>>

C17_Witness ==
    \E t, u \in Threads :
        /\ Done(t, "Cluster") /\ call[t].conn = "closed" /\ call[t].err = Nil
        /\ Done(u, "Leader") /\ call[u].conn = "closed" /\ call[u].err = Nil

\* C18: a step of a Cluster, Leader, Join or Leave leaves the engine and the
\* Node's fields as they were and invokes no method of a released handle;
\* a step of a Start, Close or BindAddress dials nothing, has no connection
\* and writes no request.
C18_NetworkAndEngineDisjoint ==
    [][\A t \in Threads :
          call'[t] # call[t] =>
            /\ call'[t].op \in NetOps =>
                  engine' = engine /\ node' = node /\ ~call'[t].onReleased
            /\ call'[t].op \in {"Start", "Close", "BindAddress"} =>
                  /\ call'[t].conn = "none"
                  /\ call'[t].sent = <<>>
                  /\ call'[t].dials = 0
                  /\ call'[t].target = ""]_vars

C18_Witness ==
    \E t, u \in Threads :
        /\ Done(t, "Cluster") /\ call[t].conn = "closed"
        /\ Done(u, "Close") /\ call[u].err = Nil
        /\ engine.state = "released"

\* C19: a Close whose s.server.Stop() ran on a live handle runs its
\* s.server.Close() on a live handle too: no other goroutine has released
\* the engine in between.
C19_NoUseAfterReleaseByAnother ==
    [][\A t \in Threads :
          call[t].pc = "release" /\ ~call[t].onReleased =>
              ~call'[t].onReleased]_vars

====
